---------------------------- MODULE Spec2Model ----------------------------
(***************************************************************************)
(* Floating AI: the submit / command / completion orchestration of         *)
(* main.py (MainWindow, AIWorker) and the completion client of             *)
(* ai_client.py, with the three text artifacts features/personality.txt,   *)
(* features/memory.txt and features/history.txt.                           *)
(*                                                                         *)
(* Text is modelled as sequences of one-character strings, so that strip,  *)
(* lower, split, translate and slicing are computed as Python computes     *)
(* them.  The display is modelled by the Markdown text last handed to      *)
(* set_markdown_output (the HTML rendering is outside the model).          *)
(***************************************************************************)
EXTENDS Integers, Sequences, FiniteSets, TLC

\* Number of AIWorker objects the model lets handle_submit create.
MaxRequests == 2

\* Number of user events (Return pressed, History clicked) the model follows.
MaxEvents == 3

\* Direct calls of ai_response pass a model_index in -MaxIndex..MaxIndex.
MaxIndex == 2

\* Direct calls of get_memory pass a maxchars in 0..MaxTail (or the default).
MaxTail == 3

\* Direct calls of save_to_memory are made while memory.txt is shorter than this.
MaxMemory == 14

-----------------------------------------------------------------------------
(* String literals of main.py and ai_client.py, and the texts typed, returned *)
(* and raised in the model                                                 *)

GREETING ==
    <<"H","e","y",","," ","t","h","e","r","e","!"," ","H","o","w"," ","c","a","n"," ","I"," ",
      "h","e","l","p"," ","y","o","u"," ","t","o","d","a","y","?">>

NO_HISTORY_FOUND ==
    <<"*","*","N","o"," ","c","o","n","v","e","r","s","a","t","i","o","n"," ","h","i","s","t",
      "o","r","y"," ","f","o","u","n","d",".","*","*">>

HISTORY_EMPTY ==
    <<"*","*","H","i","s","t","o","r","y"," ","i","s"," ","e","m","p","t","y",".","*","*">>

MEMORY_EMPTY ==
    <<"*","*","M","e","m","o","r","y"," ","i","s"," ","e","m","p","t","y",".","*","*">>

ERROR_READING_MEMORY ==
    <<"*","*","E","r","r","o","r"," ","r","e","a","d","i","n","g"," ","m","e","m","o","r","y",
      ":","*","*"," ">>

ENOENT_MEMORY ==
    <<"[","E","r","r","n","o"," ","2","]"," ","N","o"," ","s","u","c","h"," ","f","i","l","e",
      " ","o","r"," ","d","i","r","e","c","t","o","r","y",":"," ","'","f","e","a","t","u","r",
      "e","s","/","m","e","m","o","r","y",".","t","x","t","'">>

HISTORY_CLEARED ==
    <<"*","*","H","i","s","t","o","r","y"," ","c","l","e","a","r","e","d","."," ","U+2705","*",
      "*">>

MEMORY_CLEARED ==
    <<"*","*","M","e","m","o","r","y"," ","c","l","e","a","r","e","d","."," ","U+2705","*","*">>

ALL_CLEARED ==
    <<"*","*","A","l","l"," ","h","i","s","t","o","r","y"," ","a","n","d"," ","m","e","m","o",
      "r","y"," ","c","l","e","a","r","e","d","."," ","U+2705","*","*">>

PERSONALITY_SAVED ==
    <<"*","*","P","e","r","s","o","n","a","l","i","t","y"," ","s","e","t","t","i","n","g","s",
      " ","s","a","v","e","d"," ","s","u","c","c","e","s","s","f","u","l","l","y","!","*","*">>

NO_PERSONALITY ==
    <<"*","*","E","r","r","o","r",":"," ","N","o"," ","p","e","r","s","o","n","a","l","i","t",
      "y"," ","p","r","o","v","i","d","e","d",".","*","*">>

LOADING ==
    <<"*","*","L","o","a","d","i","n","g"," ","r","e","s","p","o","n","s","e",".",".",".","*",
      "*">>

ERROR_PREFIX ==
    <<"*","*","E","r","r","o","r",":","*","*"," ">>

USER_PREFIX ==
    <<"U","s","e","r",":"," ">>

AI_SEPARATOR ==
    <<"\n","\n","#","A","I",":"," ">>

RECORD_END ==
    <<"\n","\n">>

AI_PREFIX ==
    <<"A","I",":"," ">>

CMD_EXIT ==
    <<"e","x","i","t">>

CMD_CLEAR ==
    <<"c","l","e","a","r">>

CMD_HISTORY ==
    <<"h","i","s","t","o","r","y">>

CMD_MEMORY ==
    <<"m","e","m","o","r","y">>

CMD_CLEAR_HISTORY ==
    <<"c","l","e","a","r"," ","h","i","s","t","o","r","y">>

CMD_CLEAR_MEMORY ==
    <<"c","l","e","a","r"," ","m","e","m","o","r","y">>

CMD_CLEAR_ALL ==
    <<"c","l","e","a","r"," ","a","l","l">>

CMD_SET_PERSONALITY ==
    <<"s","e","t"," ","p","e","r","s","o","n","a","l","i","t","y",":">>

HTTP_PREFIX ==
    <<"H","T","T","P"," ">>

HINT_401 ==
    <<"\n","H","i","n","t",":"," ","A","u","t","h","e","n","t","i","c","a","t","i","o","n"," ",
      "f","a","i","l","e","d","."," ","E","n","s","u","r","e"," ","y","o","u","r"," ","N","V",
      "I","D","I","A","_","A","P","I","_","K","E","Y"," ","i","s"," ","v","a","l","i","d",",",
      " ","h","a","s"," ","a","c","c","e","s","s"," ","t","o"," ","t","h","e"," ","s","e","l",
      "e","c","t","e","d"," ","m","o","d","e","l",","," ","a","n","d"," ","y","o","u","r"," ",
      ".","e","n","v"," ","i","s"," ","i","n"," ","t","h","e"," ","F","l","o","a","t","i","n",
      "g","-","A","I"," ","f","o","l","d","e","r",".">>

MODEL_HINT ==
    <<"S","e","t"," ","N","V","I","D","I","A","_","M","O","D","E","L"," ","i","n"," ","y","o",
      "u","r"," ",".","e","n","v"," ","t","o"," ","a"," ","v","a","l","i","d"," ","m","o","d",
      "e","l"," ","i","d",","," ","e",".","g","."," ","N","V","I","D","I","A","_","M","O","D",
      "E","L","=","m","e","t","a","/","l","l","a","m","a","-","3",".","1","-","8","b","-","i",
      "n","s","t","r","u","c","t"," ","o","r"," ","N","V","I","D","I","A","_","M","O","D","E",
      "L","=","n","v","i","d","i","a","/","n","e","m","o","t","r","o","n","-","3","-","8","b",
      "-","i","n","s","t","r","u","c","t">>

HINT_PREFIX ==
    <<"\n","H","i","n","t",":"," ">>

S401 ==
    <<"4","0","1">>

S404 ==
    <<"4","0","4">>

CONNECTION_ERROR ==
    <<"C","o","n","n","e","c","t","i","o","n"," ","e","r","r","o","r",".">>

UNAUTHORIZED ==
    <<"U","n","a","u","t","h","o","r","i","z","e","d">>

SERVER_ERROR ==
    <<"I","n","t","e","r","n","a","l"," ","S","e","r","v","e","r"," ","E","r","r","o","r">>

NOT_FOUND ==
    <<"N","o","t"," ","F","o","u","n","d">>

IN_BLANK ==
    <<" "," ">>

IN_EXIT ==
    <<" ","E","x","i","t">>

IN_CLEAR ==
    <<"c","l","e","a","r">>

IN_HISTORY ==
    <<"H","i","s","t","o","r","y","\n">>

IN_MEMORY ==
    <<"m","e","m","o","r","y">>

IN_CLEAR_HISTORY ==
    <<"c","l","e","a","r"," ","h","i","s","t","o","r","y">>

IN_CLEAR_MEMORY ==
    <<"c","l","e","a","r"," ","m","e","m","o","r","y">>

IN_CLEAR_ALL ==
    <<"C","l","e","a","r"," ","A","l","l"," ">>

IN_SET_EMPTY ==
    <<"s","e","t"," ","p","e","r","s","o","n","a","l","i","t","y",":"," ">>

IN_SET_KIND ==
    <<"S","e","t"," ","P","e","r","s","o","n","a","l","i","t","y",":"," ","B","e"," ","k","i",
      "n","d","."," ">>

IN_HELLO ==
    <<"H","e","l","l","o",","," ","W","o","r","l","d","!">>

REPLY_RAW ==
    <<" ","O","k","!"," ","\n">>

TEXT_SPACED ==
    <<" "," ","H","i",",","\n"," ","t","h","e","r","e"," ">>

TEXT_PUNCT ==
    <<"?","!">>

TEXT_PLAIN ==
    <<"h","i"," ","t","h","e","r","e">>

\* "Don" + U+2019 (right single quotation mark) + "t": "U+2019" stands for
\* that character
TEXT_QUOTE ==
    <<"D","o","n","U+2019","t">>

INDEX_ERROR ==
    <<"l","i","s","t"," ","i","n","d","e","x"," ","o","u","t"," ","o","f"," ","r","a","n","g",
      "e">>

ERROR_SAVING_HISTORY ==
    <<"E","r","r","o","r"," ","s","a","v","i","n","g"," ","h","i","s","t","o","r","y",":"," ">>

EACCES_HISTORY ==
    <<"[","E","r","r","n","o"," ","1","3","]"," ","P","e","r","m","i","s","s","i","o","n"," ",
      "d","e","n","i","e","d",":"," ","'","f","e","a","t","u","r","e","s","/","h","i","s","t",
      "o","r","y",".","t","x","t","'">>

STATUS_SEPARATOR ==
    <<":"," ">>

SPACE ==
    <<" ">>

-----------------------------------------------------------------------------
(* Python str helpers                                                      *)

ascii_lowercase ==
    <<"a","b","c","d","e","f","g","h","i","j","k","l","m","n","o","p","q","r","s","t","u","v",
      "w","x","y","z">>

ascii_uppercase ==
    <<"A","B","C","D","E","F","G","H","I","J","K","L","M","N","O","P","Q","R","S","T","U","V",
      "W","X","Y","Z">>

\* string.punctuation ("U+0060" stands for the grave accent, "U+2705" in the
\* literals above for the check-mark character: neither can be written in a
\* string here)
punctuation ==
    {"!","\"","#","$","%","&","'","(",")","*","+",",","-",".","/",":",";","<","=",">","?","@",
     "[","\\","]","^","_","U+0060","{","|","}","~"}

\* the characters str.strip() and str.split() treat as whitespace
whitespace == {" ","\t","\n","\r","\f"}

\* str.lower() on one character
lower_of ==
    [c \in {ascii_uppercase[i] : i \in 1..Len(ascii_uppercase)} |->
        ascii_lowercase[CHOOSE i \in 1..Len(ascii_uppercase) : ascii_uppercase[i] = c]]

ToLower(c) == IF c \in DOMAIN lower_of THEN lower_of[c] ELSE c

\* str.lower()
lower(s) == [i \in 1..Len(s) |-> ToLower(s[i])]

\* str.strip()
strip(s) ==
    LET keep == {i \in 1..Len(s) : s[i] \notin whitespace}
    IN  IF keep = {} THEN <<>>
        ELSE LET first == CHOOSE i \in keep : \A j \in 1..(i - 1) : s[j] \in whitespace
                 final == CHOOSE i \in keep : \A j \in (i + 1)..Len(s) : s[j] \in whitespace
             IN  SubSeq(s, first, final)

\* str.startswith(prefix)
startswith(s, prefix) ==
    /\ Len(prefix) <= Len(s)
    /\ SubSeq(s, 1, Len(prefix)) = prefix

\* str.translate(str.maketrans("", "", string.punctuation))
strip_punctuation(s) == SelectSeq(s, LAMBDA c : c \notin punctuation)

\* str.split(): the maximal runs of non-whitespace characters, in order
RECURSIVE split_from(_, _, _)
split_from(s, i, word) ==
    IF i > Len(s) THEN (IF word = <<>> THEN <<>> ELSE <<word>>)
    ELSE IF s[i] \in whitespace
         THEN (IF word = <<>> THEN <<>> ELSE <<word>>) \o split_from(s, i + 1, <<>>)
         ELSE split_from(s, i + 1, Append(word, s[i]))

split(s) == split_from(s, 1, <<>>)

\* " ".join(words)
RECURSIVE join(_)
join(words) ==
    IF words = <<>> THEN <<>>
    ELSE IF Len(words) = 1 THEN words[1]
    ELSE words[1] \o <<" ">> \o join(Tail(words))

\* str.split(":", 1)
split_colon(s) ==
    LET at == {i \in 1..Len(s) : s[i] = ":"}
    IN  IF at = {} THEN <<s>>
        ELSE LET k == CHOOSE i \in at : \A j \in at : i <= j
             IN  <<SubSeq(s, 1, k - 1), SubSeq(s, k + 1, Len(s))>>

\* s[-n:] for n >= 0 (Python slicing: -0 is 0, so s[-0:] is all of s)
tail_slice(s, n) ==
    IF n = 0 THEN s
    ELSE IF n >= Len(s) THEN s
    ELSE SubSeq(s, Len(s) - n + 1, Len(s))

\* "needle in s" for strings
contains(s, needle) ==
    \E i \in 0..(Len(s) - Len(needle)) : SubSeq(s, i + 1, i + Len(needle)) = needle

\* list[i] raises IndexError unless -len(list) <= i < len(list)
getitem_ok(list, i) == -Len(list) <= i /\ i < Len(list)

\* list[i] where it does not raise: a negative i counts from the end
getitem(list, i) == IF i >= 0 THEN list[i + 1] ELSE list[Len(list) + i + 1]

\* str(n) for an integer n >= 0
digits == <<"0","1","2","3","4","5","6","7","8","9">>

RECURSIVE str_int(_)
str_int(n) ==
    IF n < 10 THEN <<digits[n + 1]>>
    ELSE str_int(n \div 10) \o <<digits[(n % 10) + 1]>>

-----------------------------------------------------------------------------
(* State                                                                   *)

VARIABLES
    app,              \* "running", "closed" (exit command) or "aborted"
    text_input,       \* MainWindow.text_input: the plain text of the input field
    output_display,   \* MainWindow.output_display: the Markdown text it shows
    personality_txt,  \* features/personality.txt
    memory_txt,       \* features/memory.txt
    history_txt,      \* features/history.txt
    workers,          \* the AIWorker / QThread pairs created by handle_submit
    signals,          \* finished(query, result) emissions queued to the main thread
    worker_thread,    \* MainWindow._worker_thread: the one QThread still referenced
    console,          \* what print() has written
    last,             \* the handler the main thread ran last, and how it ended
    afterClearAll,    \* what has happened since the last completed "clear all"
    events,           \* the number of user events so far
    call              \* the last direct call of a function, outside the application

vars ==
    <<app, text_input, output_display, personality_txt, memory_txt, history_txt, workers,
      signals, worker_thread, console, last, afterClearAll, events, call>>

\* a file of the features directory: absent, or present with its text
NoFile == [exists |-> FALSE, data |-> <<>>]

File(text) == [exists |-> TRUE, data |-> text]

\* The texts typed into the input field before Return is pressed.
Inputs ==
    {IN_BLANK, IN_EXIT, IN_CLEAR, IN_HISTORY, IN_MEMORY, IN_CLEAR_HISTORY,
     IN_CLEAR_MEMORY, IN_CLEAR_ALL, IN_SET_EMPTY, IN_SET_KIND, IN_HELLO}

\* What one call of client.chat.completions.create does here: it returns a
\* message content, or fails with an HTTP status and body (kind "http"; a
\* failure without a response, kind "transport", has only its text).
Completions ==
    {[kind |-> "content", status |-> 200, text |-> REPLY_RAW],
     [kind |-> "http", status |-> 500, text |-> SERVER_ERROR]}

\* Which of the n opens for writing of a handler raise OSError (by position).
WriteFaults(n) == SUBSET (1..n)

Ids == 1..MaxRequests

NoWorker ==
    [st |-> "unused", query |-> <<>>, model_index |-> 0, model |-> "",
     personality |-> <<>>, memory |-> <<>>, result |-> <<>>, failed |-> FALSE]

\* a QThread that has been started and whose quit() has not been processed
IsRunning(w) == w.st \in {"started", "calling", "emitted"}

\* What last records of a handler: which it was (op), for handle_submit the
\* branch taken and the text typed, the worker it dispatched or whose result
\* it handled (0 if none), and how it ended.
Ended(op, branch, typed, id, result) ==
    [op |-> op, branch |-> branch, typed |-> typed, id |-> id, result |-> result]

\* What call records of a function called directly: its name and arguments,
\* what it returned or the message of what it raised, and for ai_response the
\* model it selected and what its completion call did.  The running
\* application makes no such call.
NoCall ==
    [fn |-> "none", args |-> <<>>, model |-> "", raised |-> FALSE, ret |-> <<>>,
     completion |-> [kind |-> "none", status |-> 0, text |-> <<>>]]

Init ==
    /\ app = "running"
    /\ text_input = <<>>
    /\ output_display = GREETING
    /\ personality_txt = NoFile
    /\ memory_txt = NoFile
    /\ history_txt = NoFile
    /\ workers = [i \in Ids |-> NoWorker]
    /\ signals = <<>>
    /\ worker_thread = 0
    /\ console = <<>>
    /\ last = Ended("init", "", <<>>, 0, "returned")
    /\ afterClearAll = "no"
    /\ events = 0
    /\ call = NoCall

-----------------------------------------------------------------------------
(* How a handler of the main thread ends                                   *)

\* the handler returns to the event loop
Returned(op, branch, typed, id) ==
    /\ last' = Ended(op, branch, typed, id, "returned")
    /\ app' = app

\* The handler leaves through an exception nobody catches.  PyQt 5.5 and later
\* call qFatal() for an exception that escapes a slot or a reimplemented
\* virtual; earlier versions print the traceback and carry on.
Raised(op, branch, typed, id) ==
    /\ last' = Ended(op, branch, typed, id, "raised")
    /\ app' \in {"running", "aborted"}

\* afterClearAll after a handler that is neither a completed "clear all", nor
\* a dispatch, nor a delivery
KeepAfterClearAll == afterClearAll' = afterClearAll

-----------------------------------------------------------------------------
(* MainWindow helpers                                                      *)

\* set_markdown_output(self.output_display, md_text)
set_markdown_output(md_text) == output_display' = md_text

\* The input field after a handler that does not touch it: it still holds the
\* text that was in it when Return was pressed.
keep_input(typed) == text_input' = typed

clear_input_forgotten(typed) == text_input' = typed

\* self.text_input.clear()
clear_input(typed) == text_input' = <<>>

truncated_by_removal == NoFile

\* open(path, "w") and f.write(""): the file is created if absent
truncated == File(<<>>)

normalize_keeping_case(text) == join(split(strip_punctuation(text)))

\* the text save_to_memory writes for its argument
normalize(text) == join(split(strip_punctuation(lower(text))))

append_to_overwriting(file, text) == File(text)

\* open(path, "a") and f.write(text): the file is created if absent
append_to(file, text) == File(file.data \o text)

save_to_memory_skipping_repeat(text) ==
    LET added == normalize(text) \o SPACE
    IN  memory_txt' =
            IF memory_txt.exists /\ tail_slice(memory_txt.data, Len(added)) = added
            THEN memory_txt
            ELSE append_to(memory_txt, added)

\* save_to_memory(text), its open succeeding
save_to_memory(text) ==
    memory_txt' = append_to(memory_txt, normalize(text) \o SPACE)

\* what load_history hands to set_markdown_output
load_history_text ==
    IF history_txt.exists
    THEN (IF strip(history_txt.data) # <<>> THEN history_txt.data ELSE HISTORY_EMPTY)
    ELSE NO_HISTORY_FOUND

\* what the "memory" command hands to set_markdown_output
memory_command_text ==
    IF memory_txt.exists
    THEN (IF strip(memory_txt.data) # <<>> THEN memory_txt.data ELSE MEMORY_EMPTY)
    ELSE ERROR_READING_MEMORY \o ENOENT_MEMORY

-----------------------------------------------------------------------------
(* MainWindow.handle_submit, one definition per branch.  typed is the text *)
(* of the input field when Return is pressed, query its strip(), faults    *)
(* the opens for writing that raise.                                       *)

files == <<personality_txt, memory_txt, history_txt>>

threads == <<workers, signals, worker_thread>>

\* if not query: return
submit_blank(typed) ==
    /\ keep_input(typed)
    /\ UNCHANGED <<output_display, files, threads, console>>
    /\ KeepAfterClearAll
    /\ Returned("submit", "blank", typed, 0)

\* exit: self.close() closes the only window, which ends the application
submit_exit(typed) ==
    /\ keep_input(typed)
    /\ app' = "closed"
    /\ last' = Ended("submit", "exit", typed, 0, "returned")
    /\ UNCHANGED <<output_display, files, threads, console>>
    /\ KeepAfterClearAll

\* clear
submit_clear(typed) ==
    /\ output_display' = <<>>
    /\ clear_input(typed)
    /\ UNCHANGED <<files, threads, console>>
    /\ KeepAfterClearAll
    /\ Returned("submit", "clear", typed, 0)

\* history
submit_history(typed) ==
    /\ set_markdown_output(load_history_text)
    /\ clear_input(typed)
    /\ UNCHANGED <<files, threads, console>>
    /\ KeepAfterClearAll
    /\ Returned("submit", "history", typed, 0)

submit_memory_creating_file(typed) ==
    /\ set_markdown_output(memory_command_text)
    /\ clear_input(typed)
    /\ memory_txt' = File(memory_txt.data)
    /\ UNCHANGED <<personality_txt, history_txt, threads, console>>
    /\ KeepAfterClearAll
    /\ Returned("submit", "memory", typed, 0)

\* memory
submit_memory(typed) ==
    /\ set_markdown_output(memory_command_text)
    /\ clear_input(typed)
    /\ UNCHANGED <<files, threads, console>>
    /\ KeepAfterClearAll
    /\ Returned("submit", "memory", typed, 0)

\* clear history
submit_clear_history(typed, faults) ==
    /\ UNCHANGED <<personality_txt, memory_txt, threads, console>>
    /\ KeepAfterClearAll
    /\ IF 1 \in faults
       THEN /\ UNCHANGED <<history_txt, output_display>>
            /\ keep_input(typed)
            /\ Raised("submit", "clear history", typed, 0)
       ELSE /\ history_txt' = truncated
            /\ set_markdown_output(HISTORY_CLEARED)
            /\ clear_input(typed)
            /\ Returned("submit", "clear history", typed, 0)

\* clear memory
submit_clear_memory(typed, faults) ==
    /\ UNCHANGED <<personality_txt, history_txt, threads, console>>
    /\ KeepAfterClearAll
    /\ IF 1 \in faults
       THEN /\ UNCHANGED <<memory_txt, output_display>>
            /\ keep_input(typed)
            /\ Raised("submit", "clear memory", typed, 0)
       ELSE /\ memory_txt' = truncated
            /\ set_markdown_output(MEMORY_CLEARED)
            /\ clear_input(typed)
            /\ Returned("submit", "clear memory", typed, 0)

\* clear all
submit_clear_all(typed, faults) ==
    /\ UNCHANGED <<personality_txt, threads, console>>
    /\ IF 1 \in faults
       THEN /\ UNCHANGED <<history_txt, memory_txt, output_display>>
            /\ keep_input(typed)
            /\ KeepAfterClearAll
            /\ Raised("submit", "clear all", typed, 0)
       ELSE IF 2 \in faults
       THEN /\ history_txt' = truncated
            /\ UNCHANGED <<memory_txt, output_display>>
            /\ keep_input(typed)
            /\ KeepAfterClearAll
            /\ Raised("submit", "clear all", typed, 0)
       ELSE /\ history_txt' = truncated
            /\ memory_txt' = truncated
            /\ set_markdown_output(ALL_CLEARED)
            /\ clear_input(typed)
            /\ afterClearAll' = "fresh"
            /\ Returned("submit", "clear all", typed, 0)

\* set personality:<text>
submit_set_personality(typed, query, faults) ==
    LET parts == split_colon(query)
    IN  /\ UNCHANGED <<memory_txt, history_txt, threads, console>>
        /\ KeepAfterClearAll
        /\ IF Len(parts) > 1
           THEN IF 1 \in faults
                THEN /\ UNCHANGED <<personality_txt, output_display>>
                     /\ keep_input(typed)
                     /\ Raised("submit", "set personality", typed, 0)
                ELSE /\ personality_txt' = File(strip(parts[2]))
                     /\ set_markdown_output(PERSONALITY_SAVED)
                     /\ clear_input(typed)
                     /\ Returned("submit", "set personality", typed, 0)
           ELSE /\ UNCHANGED personality_txt
                /\ set_markdown_output(NO_PERSONALITY)
                /\ clear_input(typed)
                /\ Returned("submit", "set personality", typed, 0)

\* self.model_selector.currentIndex(): the combo box is given no items
currentIndex == -1

\* the AIWorker and QThread the next dispatch creates
NextId ==
    CHOOSE i \in Ids :
        /\ workers[i].st = "unused"
        /\ \A j \in 1..(i - 1) : workers[j].st # "unused"

show_loading_skipped == UNCHANGED output_display

\* self.set_markdown_output(self.output_display, "**Loading response...**")
show_loading == set_markdown_output(LOADING)

submit_ai_without_save(typed, query, faults, gc) ==
    /\ UNCHANGED <<personality_txt, history_txt, signals, console>>
    /\ afterClearAll' = "no"
    /\ IF 1 \in faults
       THEN /\ UNCHANGED <<memory_txt, output_display, workers, worker_thread>>
            /\ keep_input(typed)
            /\ Raised("submit", "ai", typed, 0)
       ELSE /\ UNCHANGED memory_txt
            /\ show_loading
            /\ clear_input(typed)
            /\ IF worker_thread # 0 /\ IsRunning(workers[worker_thread]) /\ gc = "abort"
               THEN /\ app' = "aborted"
                    /\ last' = Ended("submit", "ai", typed, 0, "aborted")
                    /\ UNCHANGED <<workers, worker_thread>>
               ELSE /\ workers' = [workers EXCEPT ![NextId] =
                                      [NoWorker EXCEPT !.st = "started", !.query = query,
                                                       !.model_index = currentIndex]]
                    /\ worker_thread' = NextId
                    /\ Returned("submit", "ai", typed, NextId)

\* Anything else: the AI path.  Assigning self._worker_thread drops the only
\* reference to the QThread of the previous dispatch.  If that thread is still
\* running, destroying it is an error ("QThread: Destroyed while thread is
\* still running", which aborts the process); whether the wrapper's release
\* destroys it at that point is decided by gc.
submit_ai(typed, query, faults, gc) ==
    /\ UNCHANGED <<personality_txt, history_txt, signals, console>>
    /\ afterClearAll' = "no"
    /\ IF 1 \in faults
       THEN /\ UNCHANGED <<memory_txt, output_display, workers, worker_thread>>
            /\ keep_input(typed)
            /\ Raised("submit", "ai", typed, 0)
       ELSE /\ save_to_memory(USER_PREFIX \o query)
            /\ show_loading
            /\ clear_input(typed)
            /\ IF worker_thread # 0 /\ IsRunning(workers[worker_thread]) /\ gc = "abort"
               THEN /\ app' = "aborted"
                    /\ last' = Ended("submit", "ai", typed, 0, "aborted")
                    /\ UNCHANGED <<workers, worker_thread>>
               ELSE /\ workers' = [workers EXCEPT ![NextId] =
                                      [NoWorker EXCEPT !.st = "started", !.query = query,
                                                       !.model_index = currentIndex]]
                    /\ worker_thread' = NextId
                    /\ Returned("submit", "ai", typed, NextId)

handle_submit(typed) ==
    LET query   == strip(typed)
        lower_q == lower(query)
    IN  IF query = <<>> THEN submit_blank(typed)
        ELSE IF lower_q = CMD_EXIT THEN submit_exit(typed)
        ELSE IF lower_q = CMD_CLEAR THEN submit_clear(typed)
        ELSE IF lower_q = CMD_HISTORY THEN submit_history(typed)
        ELSE IF lower_q = CMD_MEMORY THEN submit_memory(typed)
        ELSE IF lower_q = CMD_CLEAR_HISTORY
             THEN \E faults \in WriteFaults(1) : submit_clear_history(typed, faults)
        ELSE IF lower_q = CMD_CLEAR_MEMORY
             THEN \E faults \in WriteFaults(1) : submit_clear_memory(typed, faults)
        ELSE IF lower_q = CMD_CLEAR_ALL
             THEN \E faults \in WriteFaults(2) : submit_clear_all(typed, faults)
        ELSE IF startswith(lower_q, CMD_SET_PERSONALITY)
             THEN \E faults \in WriteFaults(1) : submit_set_personality(typed, query, faults)
        ELSE /\ \E i \in Ids : workers[i].st = "unused"
             /\ \E faults \in WriteFaults(1), gc \in {"abort", "survive"} :
                    submit_ai(typed, query, faults, gc)

\* CustomTextEdit.keyPressEvent: Return pressed with typed in the input field
Submit ==
    /\ app = "running"
    /\ events < MaxEvents
    /\ events' = events + 1
    /\ \E typed \in Inputs : handle_submit(typed)
    /\ UNCHANGED call

-----------------------------------------------------------------------------
(* ai_client.py                                                            *)

AVAILABLE_MODELS == <<"nvidia/nemotron-3-8b-instruct">>

\* the default of get_memory's maxchars
DEFAULT_MAXCHARS == 10000

\* get_personality()
get_personality == IF personality_txt.exists THEN personality_txt.data ELSE <<>>

\* get_memory(maxchars)
get_memory(maxchars) ==
    IF memory_txt.exists THEN tail_slice(memory_txt.data, maxchars) ELSE <<>>

valid_model_index_unclamped(model_index) == model_index

\* "Ensure valid model index"
valid_model_index(model_index) ==
    IF model_index < 0 \/ model_index >= Len(AVAILABLE_MODELS) THEN 0 ELSE model_index

error_message_without_hints(c) ==
    IF c.kind = "http"
    THEN HTTP_PREFIX \o str_int(c.status) \o STATUS_SEPARATOR \o c.text
    ELSE c.text

\* the message of the RuntimeError ai_response raises for a failed call
error_message(c) ==
    LET message == IF c.kind = "http"
                   THEN HTTP_PREFIX \o str_int(c.status) \o STATUS_SEPARATOR \o c.text
                   ELSE c.text
        with401 == IF contains(message, S401) THEN message \o HINT_401 ELSE message
    IN  IF contains(with401, S404) THEN with401 \o HINT_PREFIX \o MODEL_HINT ELSE with401

run_result_unprefixed(c) ==
    IF c.kind = "content" THEN strip(c.text) ELSE error_message(c)

\* AIWorker.run: the string it emits for what the completion call did
run_result(c) ==
    IF c.kind = "content" THEN strip(c.text) ELSE ERROR_PREFIX \o error_message(c)

\* AIWorker.run up to the network call: ai_response reads the personality and
\* the memory into the prompt and settles the model
WorkerCompose(i) ==
    /\ app = "running"
    /\ workers[i].st = "started"
    /\ workers' = [workers EXCEPT ![i].st = "calling",
                                  ![i].personality = get_personality,
                                  ![i].memory = get_memory(DEFAULT_MAXCHARS),
                                  ![i].model =
                                      AVAILABLE_MODELS[valid_model_index(workers[i].model_index) + 1]]
    /\ UNCHANGED <<app, text_input, output_display, files, signals, worker_thread, console,
                   last, afterClearAll, events, call>>

WorkerReturn_displaying(i) ==
    /\ app = "running"
    /\ workers[i].st = "calling"
    /\ \E c \in Completions :
           /\ workers' = [workers EXCEPT ![i].st = "emitted", ![i].result = run_result(c),
                                         ![i].failed = (c.kind # "content")]
           /\ output_display' = run_result(c)
    /\ signals' = Append(signals, i)
    /\ UNCHANGED <<app, text_input, files, worker_thread, console, last,
                   afterClearAll, events, call>>

\* The network call ends as c says; run emits finished(query, result), which
\* is queued to the main thread.
WorkerReturn(i) ==
    /\ app = "running"
    /\ workers[i].st = "calling"
    /\ \E c \in Completions :
           workers' = [workers EXCEPT ![i].st = "emitted", ![i].result = run_result(c),
                                      ![i].failed = (c.kind # "content")]
    /\ signals' = Append(signals, i)
    /\ UNCHANGED <<app, text_input, output_display, files, worker_thread, console, last,
                   afterClearAll, events, call>>

-----------------------------------------------------------------------------
(* Completion handling on the main thread                                  *)

history_record_unterminated(query, output) ==
    USER_PREFIX \o query \o AI_SEPARATOR \o output

\* the record on_ai_response writes to the history file
history_record(query, output) ==
    USER_PREFIX \o query \o AI_SEPARATOR \o output \o RECORD_END

\* MainWindow.on_ai_response(query, output)
on_ai_response(i, query, output, faults) ==
    /\ set_markdown_output(output)
    /\ IF 1 \in faults
       THEN /\ console' = Append(console, ERROR_SAVING_HISTORY \o EACCES_HISTORY)
            /\ UNCHANGED history_txt
       ELSE /\ history_txt' = append_to(history_txt, history_record(query, output))
            /\ UNCHANGED console
    /\ IF 2 \in faults
       THEN /\ UNCHANGED memory_txt
            /\ Raised("deliver", "", <<>>, i)
       ELSE /\ save_to_memory(AI_PREFIX \o output)
            /\ Returned("deliver", "", <<>>, i)
    /\ UNCHANGED <<personality_txt, text_input>>

\* The main thread's event loop takes the oldest queued finished signal: it
\* calls on_ai_response and then thread.quit, which ends that worker's thread.
Deliver ==
    /\ app = "running"
    /\ signals # <<>>
    /\ LET i == Head(signals)
       IN  /\ \E faults \in WriteFaults(2) :
                  on_ai_response(i, workers[i].query, workers[i].result, faults)
           /\ workers' = [workers EXCEPT ![i] = [NoWorker EXCEPT !.st = "finished"]]
    /\ signals' = Tail(signals)
    /\ afterClearAll' = IF afterClearAll = "fresh" THEN "delivered" ELSE afterClearAll
    /\ UNCHANGED <<worker_thread, events, call>>

-----------------------------------------------------------------------------
(* The buttons                                                             *)

\* history_button.clicked: load_history
HistoryButton ==
    /\ app = "running"
    /\ events < MaxEvents
    /\ events' = events + 1
    /\ set_markdown_output(load_history_text)
    /\ UNCHANGED <<text_input, files, threads, console, call>>
    /\ KeepAfterClearAll
    /\ Returned("history_button", "", <<>>, 0)

-----------------------------------------------------------------------------
(* The application                                                         *)

Next ==
    \/ Submit
    \/ HistoryButton
    \/ \E i \in Ids : WorkerCompose(i)
    \/ \E i \in Ids : WorkerReturn(i)
    \/ Deliver

Spec == Init /\ [][Next]_vars

-----------------------------------------------------------------------------
(* The functions of ai_client.py and save_to_memory called directly, one   *)
(* call after the other, on the files as the calls before left them        *)

application ==
    <<app, text_input, output_display, workers, signals, worker_thread, console, last,
      afterClearAll, events>>

\* the model_index arguments
ModelIndexes == (-MaxIndex)..MaxIndex

\* the maxchars arguments
TailLengths == (0..MaxTail) \cup {DEFAULT_MAXCHARS}

\* the text arguments of save_to_memory
Texts == {IN_HELLO, TEXT_SPACED, TEXT_PUNCT, TEXT_PLAIN, TEXT_QUOTE, <<>>}

\* what the completion call of a direct ai_response does
CallCompletions ==
    Completions \cup
    {[kind |-> "transport", status |-> 0, text |-> CONNECTION_ERROR],
     [kind |-> "http", status |-> 401, text |-> UNAUTHORIZED],
     [kind |-> "http", status |-> 404, text |-> NOT_FOUND]}

\* ai_response(user_query, model_index), its completion call ending as c says.
\* The subscript AVAILABLE_MODELS[model_index] is evaluated inside the try
\* block, so an IndexError would be re-raised as a RuntimeError like any other
\* failure.
ai_response(user_query, model_index, c) ==
    LET index == valid_model_index(model_index)
        found == getitem_ok(AVAILABLE_MODELS, index)
    IN  [fn     |-> "ai_response",
         args   |-> <<user_query, model_index>>,
         completion |-> c,
         model  |-> IF found THEN getitem(AVAILABLE_MODELS, index) ELSE "",
         raised |-> ~found \/ c.kind # "content",
         ret    |-> IF ~found THEN INDEX_ERROR
                    ELSE IF c.kind = "content" THEN strip(c.text)
                    ELSE error_message(c)]

CallAiResponse ==
    /\ \E model_index \in ModelIndexes, c \in CallCompletions :
           call' = ai_response(strip(IN_HELLO), model_index, c)
    /\ UNCHANGED <<application, files>>

CallGetMemory ==
    /\ \E maxchars \in TailLengths :
           call' = [NoCall EXCEPT !.fn = "get_memory", !.args = <<maxchars>>,
                                  !.ret = get_memory(maxchars)]
    /\ UNCHANGED <<application, files>>

CallGetPersonality ==
    /\ call' = [NoCall EXCEPT !.fn = "get_personality", !.ret = get_personality]
    /\ UNCHANGED <<application, files>>

CallSaveToMemory ==
    /\ Len(memory_txt.data) < MaxMemory
    /\ \E text \in Texts :
           /\ save_to_memory(text)
           /\ call' = [NoCall EXCEPT !.fn = "save_to_memory", !.args = <<text>>]
    /\ UNCHANGED <<application, personality_txt, history_txt>>

CallNext ==
    \/ CallAiResponse
    \/ CallGetMemory
    \/ CallGetPersonality
    \/ CallSaveToMemory

CallSpec == Init /\ [][CallNext]_vars

-----------------------------------------------------------------------------
(* Vocabulary of the properties                                            *)

IsPrefix(a, b) == Len(a) <= Len(b) /\ SubSeq(b, 1, Len(a)) = a

\* the step is one run of handle_submit
IsSubmitStep == events' = events + 1 /\ last'.op = "submit"

\* the step is one click on the History button
IsButtonStep == events' = events + 1 /\ last'.op = "history_button"

\* the step is the delivery of the oldest queued result
IsDeliverStep == signals # <<>> /\ signals' = Tail(signals) /\ last'.op = "deliver"

\* the requests submitted whose result has not been delivered
Outstanding == {i \in Ids : IsRunning(workers[i])}

\* the text after "set personality:" in what was typed is empty or blank
EmptyPayload(typed) ==
    LET query == strip(typed)
    IN  strip(SubSeq(query, Len(CMD_SET_PERSONALITY) + 1, Len(query))) = <<>>

\* content of a file in one step: kept, extended, or emptied by one of clears
KeptExtendedOrCleared(old, new, clears) ==
    \/ new.data = old.data
    \/ IsPrefix(old.data, new.data)
    \/ new.data = <<>> /\ IsSubmitStep /\ last'.branch \in clears

-----------------------------------------------------------------------------
(* Properties                                                              *)

\* C1: in every step the content of the memory file and of the history file
\* stays the same, is extended by a suffix, or becomes empty; it becomes empty
\* only in a step that handles "clear memory" or "clear all" (memory), "clear
\* history" or "clear all" (history); it is never partially removed or
\* rewritten.
C1_AppendOnlyExceptClear ==
    [][/\ KeptExtendedOrCleared(memory_txt, memory_txt', {"clear memory", "clear all"})
       /\ KeptExtendedOrCleared(history_txt, history_txt', {"clear history", "clear all"})]_vars

\* C1, its case: "clear memory" has emptied a memory that had content, and
\* the history still holds a record.
C1_Witness ==
    /\ last.op = "submit" /\ last.branch = "clear memory" /\ last.result = "returned"
    /\ memory_txt = File(<<>>)
    /\ history_txt.data # <<>>

\* C2: "set personality:" with an empty or blank payload leaves the three
\* files unchanged and displays the error message, not the success message.
C2_EmptyPersonalityRejected ==
    [][(/\ IsSubmitStep
        /\ last'.branch = "set personality"
        /\ last'.result = "returned"
        /\ EmptyPayload(last'.typed))
       => /\ personality_txt' = personality_txt
          /\ memory_txt' = memory_txt
          /\ history_txt' = history_txt
          /\ output_display' = NO_PERSONALITY]_vars

\* C3: a missing file behaves like an empty one: the "history" and "memory"
\* commands display the "History is empty." / "Memory is empty." placeholder
\* whenever the file has no content, be it present or absent, and no error
\* text.
C3_MissingLikeEmpty ==
    /\ (last.op = "submit" /\ last.branch = "history" /\ strip(history_txt.data) = <<>>)
       => output_display = HISTORY_EMPTY
    /\ (last.op = "submit" /\ last.branch = "memory" /\ strip(memory_txt.data) = <<>>)
       => output_display = MEMORY_EMPTY

\* C4 as stated: after handle_submit returns for any input other than "exit",
\* the input field is empty.
C4_Original ==
    (/\ last.op = "submit"
     /\ last.result = "returned"
     /\ lower(strip(last.typed)) # CMD_EXIT)
    => text_input = <<>>

\* C4: after handle_submit returns for any input that is not blank and is not
\* "exit", the input field is empty.
C4_InputCleared ==
    (/\ last.op = "submit"
     /\ last.result = "returned"
     /\ strip(last.typed) # <<>>
     /\ lower(strip(last.typed)) # CMD_EXIT)
    => text_input = <<>>

\* C4, its case: a query has been dispatched, and the field that held it is
\* empty.
C4_Witness ==
    /\ last.op = "submit" /\ last.branch = "ai" /\ last.result = "returned"
    /\ strip(last.typed) # <<>>
    /\ text_input = <<>>

\* C5: every non-command submit starts exactly one completion attempt: the
\* number of outstanding requests rises by one in each such submit, falls by
\* one in each delivery, and is unchanged by commands.
C5_OneAttemptPerSubmit ==
    [][/\ (IsSubmitStep /\ last'.branch = "ai")
          => Cardinality(Outstanding') = Cardinality(Outstanding) + 1
       /\ (IsSubmitStep /\ last'.branch # "ai")
          => Outstanding' = Outstanding
       /\ IsDeliverStep
          => Cardinality(Outstanding') = Cardinality(Outstanding) - 1]_vars

\* C6: a non-command submit handled while an earlier request is outstanding
\* neither cancels nor drops that request: the application keeps running and
\* the request stays outstanding, to be delivered later.
C6_EarlierRequestKept ==
    [][(IsSubmitStep /\ last'.branch = "ai" /\ last'.result # "raised")
       => \A i \in Outstanding : app' = "running" /\ i \in Outstanding']_vars

\* C7 as stated: whenever at least one request is outstanding, the display
\* shows the "Loading response..." placeholder.
C7_Original ==
    (app = "running" /\ Outstanding # {}) => output_display = LOADING

\* C7: whenever the handler the main thread ran last is a non-command submit
\* that returned (no command, button or delivery since), its request is
\* outstanding and the display shows the "Loading response..." placeholder.
C7_LoadingAfterDispatch ==
    (last.op = "submit" /\ last.branch = "ai" /\ last.result = "returned")
    => /\ last.id \in Outstanding
       /\ output_display = LOADING

\* C7, its case: the result of the request dispatched last is queued for the
\* main thread, not yet delivered, and the placeholder is on display.
C7_Witness ==
    /\ last.op = "submit" /\ last.branch = "ai" /\ last.result = "returned"
    /\ workers[last.id].st = "emitted"
    /\ output_display = LOADING

\* C8: when the completion call fails the application keeps running: the
\* worker emits exactly one result, a string that starts with the Markdown
\* bold "**Error:** ", which the delivery renders as the response; after the
\* delivery the request is no longer outstanding and no result of it remains
\* queued, so that a later submit is dispatched like any other.
C8_FailureDelivered ==
    [][/\ \A i \in Ids :
              (workers[i].st = "calling" /\ workers'[i].st = "emitted" /\ workers'[i].failed)
              => /\ startswith(workers'[i].result, ERROR_PREFIX)
                 /\ signals' = Append(signals, i)
                 /\ app' = "running"
       /\ (IsDeliverStep /\ workers[Head(signals)].failed)
          => /\ output_display' = workers[Head(signals)].result
             /\ Head(signals) \notin Outstanding'
             /\ \A k \in 1..Len(signals') : signals'[k] # Head(signals)]_vars

\* C8, its case: a failed call has been delivered and recorded as the answer
\* of its history record, and the submit after it has been dispatched.
C8_Witness ==
    /\ contains(history_txt.data, AI_SEPARATOR \o ERROR_PREFIX)
    /\ workers[1].st = "finished"
    /\ last.op = "submit" /\ last.branch = "ai" /\ last.result = "returned"
    /\ workers[last.id].st = "started"
    /\ output_display = LOADING

\* C9: a failure of any file write is caught inside its handler: no handler
\* of the main thread ends with an exception that escapes it.
C9_WriteFailureCaught == last.result # "raised"

\* C10 as stated: after "clear all" returns, the memory and the history are
\* empty, and a "history" or "memory" command issued afterwards with no
\* non-command submit in between displays the "History is empty." / "Memory
\* is empty." placeholder.
C10_Original ==
    /\ (last.op = "submit" /\ last.branch = "clear all" /\ last.result = "returned")
       => (memory_txt.data = <<>> /\ history_txt.data = <<>>)
    /\ (afterClearAll \in {"fresh", "delivered"} /\ last.op = "submit" /\ last.branch = "history")
       => output_display = HISTORY_EMPTY
    /\ (afterClearAll \in {"fresh", "delivered"} /\ last.op = "submit" /\ last.branch = "memory")
       => output_display = MEMORY_EMPTY

\* C10: after "clear all" returns, the memory and the history are empty, and
\* a "history" or "memory" command issued afterwards with no non-command
\* submit and no delivery of a response in between displays the "History is
\* empty." / "Memory is empty." placeholder.
C10_ClearAllEmpties ==
    /\ (last.op = "submit" /\ last.branch = "clear all" /\ last.result = "returned")
       => (memory_txt.data = <<>> /\ history_txt.data = <<>>)
    /\ (afterClearAll = "fresh" /\ last.op = "submit" /\ last.branch = "history")
       => output_display = HISTORY_EMPTY
    /\ (afterClearAll = "fresh" /\ last.op = "submit" /\ last.branch = "memory")
       => output_display = MEMORY_EMPTY

\* C10, its case: "clear all" was handled while a request was outstanding,
\* the "history" command after it shows the placeholder, and the request is
\* still outstanding.
C10_Witness ==
    /\ afterClearAll = "fresh"
    /\ last.op = "submit" /\ last.branch = "history"
    /\ output_display = HISTORY_EMPTY
    /\ Outstanding # {}

\* the record "User: <query>\n\n#AI: <output>\n\n" of one exchange
ExchangeRecord(query, output) ==
    <<"U","s","e","r",":"," ">> \o query \o <<"\n","\n","#","A","I",":"," ">> \o output
        \o <<"\n","\n">>

\* the step is a submit that handles one of the commands in clears
IsClearStep(clears) == IsSubmitStep /\ last'.branch \in clears

\* C11 as stated: the history equals the concatenation, in order of delivery,
\* of one record for each response delivered since the last clear; stepwise:
\* every delivery appends exactly the record of the delivered response, a
\* "clear history" or "clear all" that returns empties it, and no other step
\* changes it.
C11_Original ==
    [][/\ IsDeliverStep
          => history_txt'.data =
                 history_txt.data
                     \o ExchangeRecord(workers[Head(signals)].query, workers[Head(signals)].result)
       /\ (IsClearStep({"clear history", "clear all"}) /\ last'.result = "returned")
          => history_txt'.data = <<>>
       /\ (~IsDeliverStep /\ ~IsClearStep({"clear history", "clear all"}))
          => history_txt'.data = history_txt.data]_vars

\* C11: every delivery appends exactly the record of the delivered response
\* to the history, unless the history file cannot be opened for appending:
\* then the history is left as it is and the error is printed; a "clear
\* history" or "clear all" empties it or, when it does not return, leaves it as
\* it is; no other step changes it.
C11_HistoryIsDeliveredRecords ==
    [][/\ IsDeliverStep
          => \/ /\ history_txt'.data =
                       history_txt.data
                           \o ExchangeRecord(workers[Head(signals)].query,
                                             workers[Head(signals)].result)
                 /\ console' = console
              \/ /\ history_txt' = history_txt
                 /\ Len(console') = Len(console) + 1
       /\ IsClearStep({"clear history", "clear all"})
          => \/ history_txt'.data = <<>>
             \/ history_txt' = history_txt /\ last'.result = "raised"
       /\ (~IsDeliverStep /\ ~IsClearStep({"clear history", "clear all"}))
          => history_txt'.data = history_txt.data]_vars

\* C11, its case: one response has been delivered and its record is the whole
\* history, while the result of another request, submitted before the
\* delivery, waits undelivered.
C11_Witness ==
    /\ last.op = "deliver"
    /\ \E i \in Ids : workers[i].st = "emitted"
    /\ history_txt.data = ExchangeRecord(strip(IN_HELLO), strip(REPLY_RAW))

\* C12: ai_response selects AVAILABLE_MODELS[0] for every model_index that is
\* negative or not below len(AVAILABLE_MODELS), and the entry at the index for
\* every other; it raises no IndexError.  The index handle_submit passes,
\* currentIndex() of the model selector, is among the indexes called with.
C12_IndexClamped ==
    call.fn = "ai_response"
    => LET model_index == call.args[2]
       IN  /\ call.model =
                  IF model_index < 0 \/ model_index >= Len(AVAILABLE_MODELS)
                  THEN AVAILABLE_MODELS[1]
                  ELSE AVAILABLE_MODELS[model_index + 1]
           /\ call.ret # INDEX_ERROR
           /\ currentIndex \in ModelIndexes

\* C12, its case: ai_response was called with the index of the model
\* selector, which is out of range, selected the first model and returned
\* the reply.
C12_Witness ==
    /\ call.fn = "ai_response"
    /\ call.args[2] = currentIndex
    /\ (currentIndex < 0 \/ currentIndex >= Len(AVAILABLE_MODELS))
    /\ call.model = AVAILABLE_MODELS[1]
    /\ ~call.raised

\* the last n characters of s, all of s if it has fewer
LastChars(s, n) ==
    LET k == IF n < Len(s) THEN n ELSE Len(s)
    IN  SubSeq(s, Len(s) - k + 1, Len(s))

\* C13: for every maxchars >= 0 and every content of the memory file,
\* get_memory(maxchars) returns at most maxchars characters, namely the last
\* min(maxchars, length) characters of the file.
C13_TailBounded ==
    call.fn = "get_memory"
    => /\ Len(call.ret) <= call.args[1]
       /\ call.ret = LastChars(memory_txt.data, call.args[1])

\* the direct call was an ai_response whose completion call failed with this
\* HTTP status
FailedWith(status) ==
    /\ call.fn = "ai_response"
    /\ call.completion.kind = "http"
    /\ call.completion.status = status

\* C14: an ai_response whose completion call fails with HTTP status 401
\* raises one message that contains "401" and the credential hint; one that
\* fails with 404 raises one message that contains "404" and the hint to set
\* NVIDIA_MODEL; the message also carries the body of the response.
C14_StatusHints ==
    /\ FailedWith(401)
       => /\ call.raised
          /\ contains(call.ret, <<"4","0","1">>)
          /\ contains(call.ret, HINT_401)
          /\ contains(call.ret, call.completion.text)
    /\ FailedWith(404)
       => /\ call.raised
          /\ contains(call.ret, <<"4","0","4">>)
          /\ contains(call.ret, MODEL_HINT)
          /\ contains(call.ret, call.completion.text)

\* C14, its case: a completion call has failed with status 404, and the
\* message raised ends with the model hint and has no credential hint.
C14_Witness ==
    /\ FailedWith(404)
    /\ call.raised
    /\ call.ret = HTTP_PREFIX \o <<"4","0","4">> \o STATUS_SEPARATOR \o NOT_FOUND
                      \o HINT_PREFIX \o MODEL_HINT
    /\ ~contains(call.ret, HINT_401)

\* the step is a direct call of save_to_memory
IsSaveStep == call'.fn = "save_to_memory" /\ memory_txt' # memory_txt

\* s without its first n characters
Beyond(s, n) == SubSeq(s, n + 1, Len(s))

\* s has no upper-case letter, none of the characters marks and no whitespace
\* but single spaces between two other characters
IsNormalForm(s, marks) ==
    \A k \in 1..Len(s) :
        /\ s[k] \notin marks
        /\ s[k] \notin DOMAIN lower_of
        /\ s[k] \in whitespace
           => (s[k] = " " /\ 1 < k /\ k < Len(s) /\ s[k + 1] # " ")

\* the characters of s that are neither in marks nor whitespace
Letters(s, marks) == SelectSeq(s, LAMBDA c : c \notin marks /\ c \notin whitespace)

\* In a direct call of save_to_memory(text) the memory is extended by the
\* normal form of text followed by one space: the letters of text in lower
\* case, in order, without the characters marks and with single spaces only
\* between words; normalizing the normal form again gives the same; for
\* "Hello, World!" on an empty memory the memory becomes "hello world ", which
\* get_memory() then returns.
SaveNormalizes(marks) ==
    /\ IsSaveStep
       => LET text     == call'.args[1]
              appended == Beyond(memory_txt'.data, Len(memory_txt.data))
              form     == SubSeq(appended, 1, Len(appended) - 1)
          IN  /\ IsPrefix(memory_txt.data, memory_txt'.data)
              /\ appended # <<>>
              /\ appended[Len(appended)] = " "
              /\ IsNormalForm(form, marks)
              /\ Letters(form, marks) = Letters(lower(text), marks)
              /\ form = normalize(text)
              /\ normalize(normalize(text)) = normalize(text)
              /\ (text = IN_HELLO /\ memory_txt.data = <<>>)
                 => memory_txt'.data =
                        <<"h","e","l","l","o"," ","w","o","r","l","d"," ">>
    /\ (call'.fn = "get_memory" /\ call'.args[1] = DEFAULT_MAXCHARS)
       => call'.ret = memory_txt'.data

\* C15 as stated: save_to_memory appends the normal form of its text, in which
\* every punctuation character is removed, the typographic apostrophe U+2019
\* as well as the ASCII punctuation.
C15_Original == [][SaveNormalizes(punctuation \cup {"U+2019"})]_vars

\* C15: save_to_memory appends the normal form of its text, in which every
\* character of string.punctuation (the ASCII punctuation) is removed; any
\* other punctuation character is kept like a letter.
C15_SaveNormalizes == [][SaveNormalizes(punctuation)]_vars

\* C15, its case: save_to_memory("Hello, World!") was called on an empty
\* memory, and get_memory() has read back "hello world ".
C15_Witness ==
    /\ call.fn = "get_memory"
    /\ call.args[1] = DEFAULT_MAXCHARS
    /\ call.ret = <<"h","e","l","l","o"," ","w","o","r","l","d"," ">>
    /\ memory_txt.data = call.ret

\* The step is a submit that returns, of the text whose submit was the
\* handler the main thread ran before it, which returned too: the same
\* command or query twice in a row.
IsRepeatedSubmit ==
    /\ IsSubmitStep
    /\ last'.result = "returned"
    /\ last.op = "submit"
    /\ last.result = "returned"
    /\ last'.typed = last.typed

\* the commands that read, clear or replace an artifact
PersistenceCommands ==
    {"history", "memory", "clear history", "clear memory", "clear all", "set personality"}

\* s ends with suffix
EndsWith(s, suffix) ==
    Len(suffix) <= Len(s) /\ Beyond(s, Len(s) - Len(suffix)) = suffix

\* C16 as stated: every persistence operation is idempotent: a command or
\* query handled twice in a row leaves the three files, and what is displayed,
\* as handling it once did.
C16_Original ==
    [][IsRepeatedSubmit
       => /\ personality_txt' = personality_txt
          /\ memory_txt' = memory_txt
          /\ history_txt' = history_txt
          /\ output_display' = output_display]_vars

\* C16: reading ("history", "memory"), clearing ("clear history", "clear
\* memory", "clear all") and replacing ("set personality:") are idempotent:
\* the command handled twice in a row leaves the three files, and what is
\* displayed, as handling it once did.  Appending is not: a query submitted
\* twice in a row is in the memory twice.
C16_ReadClearIdempotent ==
    [][/\ (IsRepeatedSubmit /\ last'.branch \in PersistenceCommands)
          => /\ personality_txt' = personality_txt
             /\ memory_txt' = memory_txt
             /\ history_txt' = history_txt
             /\ output_display' = output_display
       /\ (IsRepeatedSubmit /\ last'.branch = "ai")
          => \E added \in {Beyond(memory_txt'.data, Len(memory_txt.data))} :
                 /\ added # <<>>
                 /\ EndsWith(memory_txt.data, added)
                 /\ memory_txt'.data = memory_txt.data \o added]_vars

\* C16, its case: the same query has been submitted twice in a row, and the
\* memory holds its normalized text twice.
C16_Witness ==
    /\ last.op = "submit" /\ last.branch = "ai" /\ last.result = "returned"
    /\ last.id = 2
    /\ memory_txt.data =
           <<"u","s","e","r"," ","h","e","l","l","o"," ","w","o","r","l","d"," ",
             "u","s","e","r"," ","h","e","l","l","o"," ","w","o","r","l","d"," ">>

\* C17: handling "clear", "history", "memory" or "exit", or a click on the
\* History button, leaves the three files unchanged; "clear history" changes
\* no file but the history, "clear memory" none but the memory, and "set
\* personality:<text>" none but the personality.
C17_CommandFrames ==
    [][/\ (IsSubmitStep /\ last'.branch \in {"clear", "history", "memory", "exit"})
          => /\ personality_txt' = personality_txt
             /\ memory_txt' = memory_txt
             /\ history_txt' = history_txt
       /\ IsButtonStep
          => /\ personality_txt' = personality_txt
             /\ memory_txt' = memory_txt
             /\ history_txt' = history_txt
       /\ (IsSubmitStep /\ last'.branch = "clear history")
          => (personality_txt' = personality_txt /\ memory_txt' = memory_txt)
       /\ (IsSubmitStep /\ last'.branch = "clear memory")
          => (personality_txt' = personality_txt /\ history_txt' = history_txt)
       /\ (IsSubmitStep /\ last'.branch = "set personality")
          => (memory_txt' = memory_txt /\ history_txt' = history_txt)]_vars

\* C17, its case: "set personality: Be kind." has been handled after an
\* exchange; the personality is "Be kind.", and the memory and the history
\* hold what the exchange left.
C17_Witness ==
    /\ last.op = "submit" /\ last.branch = "set personality" /\ last.result = "returned"
    /\ personality_txt = File(<<"B","e"," ","k","i","n","d",".">>)
    /\ history_txt.data = ExchangeRecord(strip(IN_HELLO), strip(REPLY_RAW))
    /\ memory_txt.data =
           <<"u","s","e","r"," ","h","e","l","l","o"," ","w","o","r","l","d"," ",
             "a","i"," ","o","k"," ">>

\* the requests whose worker is in its network call, which may never return
InCall == {i \in Ids : workers[i].st = "calling"}

\* C18: a request whose network call does not return keeps only its own
\* worker busy: every submit handled while a request is in its call, and not
\* ended by a failing file write, returns with the application running and
\* with every outstanding request still outstanding; and every delivery made
\* while a request is in its call displays the delivered result and leaves
\* the request in its call.
C18_HungRequestIsolated ==
    [][/\ (IsSubmitStep /\ InCall # {} /\ last'.result # "raised" /\ last'.branch # "exit")
          => /\ app' = "running"
             /\ last'.result = "returned"
             /\ Outstanding \subseteq Outstanding'
       /\ (IsDeliverStep /\ InCall # {})
          => /\ output_display' = workers[Head(signals)].result
             /\ InCall \subseteq InCall']_vars

\* the step is a step of a worker thread: AIWorker.run up to the network
\* call, or the end of the call with the emission of finished
IsWorkerStep ==
    \E i \in Ids :
        \/ workers[i].st = "started" /\ workers'[i].st = "calling"
        \/ workers[i].st = "calling" /\ workers'[i].st = "emitted"

\* the step is the run of one handler on the main thread
IsHandlerStep == IsSubmitStep \/ IsDeliverStep \/ IsButtonStep

\* C19: a worker step writes neither the display, nor the input field, nor a
\* file, nor the console, and it is no handler step; every change of the
\* display or of a file is made by one handler of the main thread; and a
\* delivery is one such step: it alone, with no submit in the same step,
\* displays the result, appends the record to the history (or prints the
\* error of that append) and appends the normalized answer to the memory
\* (unless that append raises).
C19_CompletionOnMainThread ==
    [][/\ IsWorkerStep
          => /\ output_display' = output_display
             /\ text_input' = text_input
             /\ personality_txt' = personality_txt
             /\ memory_txt' = memory_txt
             /\ history_txt' = history_txt
             /\ console' = console
             /\ last' = last
             /\ ~IsHandlerStep
       /\ (output_display' # output_display \/ files' # files \/ console' # console)
          => IsHandlerStep
       /\ IsDeliverStep
          => LET query  == workers[Head(signals)].query
                 output == workers[Head(signals)].result
             IN  /\ ~IsSubmitStep
                 /\ events' = events
                 /\ output_display' = output
                 /\ \/ history_txt'.data = history_txt.data \o ExchangeRecord(query, output)
                    \/ history_txt' = history_txt /\ Len(console') = Len(console) + 1
                 /\ \/ /\ last'.result = "returned"
                       /\ IsPrefix(memory_txt.data, memory_txt'.data)
                       /\ memory_txt' # memory_txt
                    \/ /\ last'.result = "raised"
                       /\ memory_txt' = memory_txt]_vars

\* C19, its case: a response has been delivered while another request was in
\* its network call: the display shows the response, the history holds its
\* record and the memory ends with its normalized text.
C19_Witness ==
    /\ last.op = "deliver" /\ last.result = "returned"
    /\ InCall # {}
    /\ output_display = strip(REPLY_RAW)
    /\ history_txt.data = ExchangeRecord(strip(IN_HELLO), strip(REPLY_RAW))
    /\ EndsWith(memory_txt.data, <<"a","i"," ","o","k"," ">>)

\* what the submit of typed, a query, appends to the memory
QueryMemoryText(typed) == normalize(<<"U","s","e","r",":"," ">> \o strip(typed)) \o <<" ">>

\* the step is AIWorker.run of request i up to its network call, with the
\* reads of personality.txt and memory.txt
IsComposeStep(i) == workers[i].st = "started" /\ workers'[i].st = "calling"

\* What C20 says of the worker and of the memory afterwards: the worker a
\* submit starts was unused and has read nothing; it reads the personality
\* and the tail of the memory as they are at its own step, after every write
\* of the main thread up to then; and the delivery of a failed result removes
\* nothing from the memory.
ReadsFollowWrite ==
    /\ (IsSubmitStep /\ last'.branch = "ai" /\ last'.id # 0)
       => /\ workers[last'.id].st = "unused"
          /\ workers'[last'.id].st = "started"
          /\ workers'[last'.id].memory = <<>>
          /\ workers'[last'.id].personality = <<>>
          /\ EndsWith(memory_txt'.data, QueryMemoryText(last'.typed))
    /\ \A i \in Ids :
           IsComposeStep(i)
           => /\ workers'[i].memory = LastChars(memory_txt.data, 10000)
              /\ workers'[i].personality = personality_txt.data
              /\ memory_txt' = memory_txt
    /\ (IsDeliverStep /\ workers[Head(signals)].failed)
       => IsPrefix(memory_txt.data, memory_txt'.data)

====
